---- MODULE Spec2Model ----
(***************************************************************************)
(* PharmaGenie AI: the multi-source aggregation layer.                     *)
(*                                                                         *)
(*   - the retrying HTTP clients of the agents (fda_agent.py,              *)
(*     clinical_trials_agent.py, trade_agent.py, clinical_trials.py),      *)
(*     written as functions of the sequence of upstream responses;         *)
(*   - the six source-agent entry points analyze_drug dispatches;          *)
(*   - analyze_drug itself (app.py), step by step, with the six tasks      *)
(*     completing in any order, the progress sink that may fail, the       *)
(*     st.session_state record cache and the caller handle_analysis_page.  *)
(*   - the rate limiter of ClinicalTrialsAgent, the caches of the web and  *)
(*     trade agents, and the generator of module random the generated      *)
(*     sources share;                                                      *)
(*   - UnifiedAPIClient (utils/api_client.py) and the ConnectionManager    *)
(*     of the websocket server (api/websocket.py, server.py).              *)
(*                                                                         *)
(* Python values are records tagged with their type in the field "py";     *)
(* a dict's keys are the record's other fields.  Strings the code          *)
(* transforms (drug name, therapeutic area) are sequences of characters.   *)
(***************************************************************************)
EXTENDS Integers, Sequences, FiniteSets, TLC

VARIABLES
    \* ---- one analyze_drug call (app.py) --------------------------------
    pc,               \* position of the running call
    drug_name,        \* argument of the running call
    therapeutic_area, \* argument of the running call
    tasks,            \* source -> state of the task created for it
    analysis,         \* the local dict `analysis` once assembled
    result,           \* what the call returned: object id or error dict
    events,           \* progress percentages delivered during the call
    dispatched,       \* source-agent tasks created during the call
    \* ---- the Streamlit session -----------------------------------------
    session,          \* st.session_state: cache key -> object id (0: absent)
    heap,             \* object id -> the dict stored under that identity
    current_analysis, \* st.session_state.current_analysis (0: None)
    recent_analyses,  \* st.session_state.recent_analyses
    calls,            \* analyze_drug calls made so far
    now,              \* the wall clock
    stored_at,        \* history: the clock when st.session_state[cache_key] was assigned
    \* ---- one client request / one agent fetch in isolation -------------
    fMode,            \* "client" or "agent"
    fWho,             \* which client or which agent
    fResp,            \* the upstream's answers, attempt by attempt
    fScenario,        \* the upstream's behaviour seen by an agent
    fCondition,       \* whether the trials agent is given a condition
    fOut,             \* the outcome of the request / fetch
    clock,            \* time.time(), in seconds
    last_request_time,\* ClinicalTrialsAgent.last_request_time
    thr,              \* the threads inside ClinicalTrialsAgent._get_with_retry
    issued,           \* the session.get calls of the instance, in order
    cache,            \* self.cache of WebIntelligenceAgent and of TradeAgent
    \* ---- the generated sources in the threads of one fan-out ------------
    gdrug,            \* the drug name the three entry points are called with
    rng,              \* the generator behind the functions of module random
    gen,              \* entry point -> its position and the values it drew
    \* ---- one UnifiedAPIClient (utils/api_client.py) ---------------------
    providers,        \* self.providers: the names of the configured providers
    current_provider, \* self.current_provider
    api_pc,           \* "new", "ready", or "failed" when __init__ raised
    chat,             \* the last chat_completion call and its outcome
    \* ---- the cache keys of two queries ----------------------------------
    kQueries,         \* the two (drug_name, therapeutic_area) pairs
    kKeys,            \* the keys computed for them
    \* ---- the ConnectionManager of the websocket server ------------------
    sockets,          \* websocket -> its state and the client_id of its handler
    active_connections, \* manager.active_connections, in insertion order
    wsOut             \* the last broadcast / send_personal_message and its outcome

orchVars == <<pc, drug_name, therapeutic_area, tasks, analysis, result, events,
              dispatched>>
sessVars == <<session, heap, current_analysis, recent_analyses, calls, now, stored_at>>
rateVars == <<clock, last_request_time, thr, issued>>
randVars == <<gdrug, rng, gen>>
apiVars == <<providers, current_provider, api_pc, chat>>
keyVars == <<kQueries, kKeys>>
wsVars == <<sockets, active_connections, wsOut>>
libVars == <<randVars, apiVars, keyVars, wsVars>>
notRand == <<apiVars, keyVars, wsVars>>
notApi == <<randVars, keyVars, wsVars>>
notKey == <<randVars, apiVars, wsVars>>
notWs == <<randVars, apiVars, keyVars>>
agentVars == <<rateVars, cache, libVars>>
fetchVars == <<fMode, fWho, fResp, fScenario, fCondition, fOut, agentVars>>
vars == <<orchVars, sessVars, fetchVars>>

----------------------------------------------------------------------------
(* Bounds of the model *)

\* analyze_drug calls in one session
MaxCalls == 2
\* clock ticks in one session
MaxTime == 1
\* upstream answers drawn for one client request
RespLen == 4
\* the last second of the clock while the rate limiter is watched
MaxRateClock == 5
\* session.get calls of one ClinicalTrialsAgent instance that are watched
MaxIssued == 4
\* how far around an expiry instant the clock is sampled, in seconds
Around == 1
\* random draws made by one generated source in one call
GenDraws == 2
\* websockets opened against the server
MaxSockets == 3

----------------------------------------------------------------------------
(* Python values *)

PyNone == [py |-> "None"]
EmptyDict == [py |-> "dict"]
EmptyList == [py |-> "list", items |-> <<>>]
PyException(name) == [py |-> "exception", name |-> name]
DataFrame(rows) == [py |-> "DataFrame", rows |-> rows]

IsException(v) == v.py = "exception"

\* bool(v) for the values truth-tested by the code; bool(DataFrame) raises
\* ValueError, which the callers test with RaisesOnBool first.
RaisesOnBool(v) == v.py = "DataFrame"
Truthy(v) ==
    CASE v.py = "None" -> FALSE
      [] v.py = "dict" -> DOMAIN v # {"py"}
      [] v.py = "list" -> v.items # <<>>
      [] OTHER -> TRUE

----------------------------------------------------------------------------
(* Strings *)

Lower(s) == [i \in DOMAIN s |-> IF s[i] = "A" THEN "a" ELSE IF s[i] = "B" THEN "b" ELSE s[i]]
IsSpace(c) == c = " "
\* s.strip() == ""
StripIsEmpty(s) == \A i \in DOMAIN s : IsSpace(s[i])

----------------------------------------------------------------------------
(* The upstream, as one HTTP exchange *)

\* What one requests.get can meet.
Responses == {"ok", "ok_empty", "timeout", "conn_error", "http500", "http429",
              "http429_ra", "http404"}

\* The Retry-After value a "http429_ra" answer carries.
RetryAfterSecs == 3

\* requests.get itself raises (Timeout, ConnectionError): no response object.
NoResponse(r) == r \in {"timeout", "conn_error"}

StatusCode(r) ==
    CASE r \in {"ok", "ok_empty"} -> 200
      [] r = "http500" -> 500
      [] r \in {"http429", "http429_ra"} -> 429
      [] r = "http404" -> 404
      [] OTHER -> 0

\* response.raise_for_status() raises HTTPError for 4xx and 5xx.
RaiseForStatusRaises(r) == StatusCode(r) >= 400

\* int(response.headers.get('Retry-After', 5))
RetryAfter(r) == IF r = "http429_ra" THEN RetryAfterSecs ELSE 5

\* response.json(): a body with matching data, or a body without any.
JsonData == [py |-> "dict", results |-> [py |-> "list", items |-> <<"hit">>]]
JsonEmpty == [py |-> "dict", results |-> EmptyList]
Body(r) == IF r = "ok" THEN JsonData ELSE JsonEmpty

\* The modules whose top level runs `import time`.
ImportsTime(module) == module \in {"clinical_trials_agent", "clinical_trials", "app"}

Min(a, b) == IF a < b THEN a ELSE b

\* One time.sleep(secs) of a client, made after its n-th requests.get.
Slept(n, secs) == [after |-> n, secs |-> secs]

\* Outcome of one client request: what it returned or raised, the number of
\* requests.get calls it made, and its time.sleep calls (before jitter).
Returned(v, n, sl) == [kind |-> "returned", value |-> v, attempts |-> n, sleeps |-> sl]
Raised(name, n, sl) == [kind |-> "raised", value |-> PyException(name), attempts |-> n, sleeps |-> sl]

----------------------------------------------------------------------------
(* The four retrying clients.  resp[k+1] answers the request of attempt k. *)

\* the default of max_retries / retries
MaxRetries == 3

RECURSIVE FdaMakeApiRequest(_, _, _, _)
FdaMakeApiRequest(resp, attempt, max_retries, sleeps) ==
    IF attempt >= max_retries
    THEN Returned(PyNone, attempt, sleeps)
    ELSE LET r == resp[attempt + 1]
             n == attempt + 1
             \* except requests.exceptions.RequestException: time.sleep(min(2 ** attempt, 10))
             Handler == IF ImportsTime("fda_agent")
                        THEN FdaMakeApiRequest(resp, attempt + 1, max_retries,
                                               Append(sleeps, Slept(n, Min(2 ^ attempt, 10))))
                        ELSE Raised("NameError", n, sleeps)
         IN  IF NoResponse(r) THEN Handler
             ELSE IF StatusCode(r) = 429
             THEN \* time.sleep(retry_after); continue
                  IF ImportsTime("fda_agent")
                  THEN FdaMakeApiRequest(resp, attempt + 1, max_retries,
                                         Append(sleeps, Slept(n, RetryAfter(r))))
                  ELSE Raised("NameError", n, sleeps)
             ELSE IF RaiseForStatusRaises(r) THEN Handler
             ELSE Returned(Body(r), n, sleeps)

RECURSIVE CtaGetWithRetry(_, _, _, _)
CtaGetWithRetry(resp, attempt, max_retries, sleeps) ==
    IF attempt >= max_retries
    THEN Returned(PyNone, attempt, sleeps)
    ELSE LET r == resp[attempt + 1]
             n == attempt + 1
         IN  IF NoResponse(r) \/ RaiseForStatusRaises(r)
             THEN IF attempt = max_retries - 1
                  THEN Returned(PyNone, n, sleeps)
                  ELSE \* time.sleep((2 ** attempt) + random.uniform(0, 1))
                       CtaGetWithRetry(resp, attempt + 1, max_retries,
                                       Append(sleeps, Slept(n, 2 ^ attempt)))
             ELSE Returned(Body(r), n, sleeps)

RECURSIVE TradeMakeApiRequest(_, _, _, _)
TradeMakeApiRequest(resp, attempt, retries, sleeps) ==
    IF attempt >= retries
    THEN Returned(PyNone, attempt, sleeps)
    ELSE LET r == resp[attempt + 1]
             n == attempt + 1
         IN  IF NoResponse(r) \/ RaiseForStatusRaises(r)
             THEN IF attempt < retries - 1
                  THEN TradeMakeApiRequest(resp, attempt + 1, retries, sleeps)
                  ELSE Returned(PyNone, n, sleeps)
             ELSE Returned(Body(r), n, sleeps)

RECURSIVE CtfMakeApiRequest(_, _, _, _)
CtfMakeApiRequest(resp, attempt, max_retries, sleeps) ==
    IF attempt >= max_retries
    THEN Returned(PyNone, attempt, sleeps)
    ELSE LET r == resp[attempt + 1]
             n == attempt + 1
             last == attempt = max_retries - 1
             \* if attempt > 0: time.sleep(1 + attempt)
             sl == IF attempt > 0 THEN Append(sleeps, Slept(attempt, 1 + attempt)) ELSE sleeps
         IN  IF NoResponse(r)
             THEN IF last THEN Returned(PyNone, n, sl)
                  ELSE CtfMakeApiRequest(resp, attempt + 1, max_retries, Append(sl, Slept(n, 1)))
             ELSE IF StatusCode(r) = 429
             THEN CtfMakeApiRequest(resp, attempt + 1, max_retries,
                                    Append(sl, Slept(n, RetryAfter(r))))
             ELSE IF RaiseForStatusRaises(r)
             THEN IF StatusCode(r) = 404 THEN Returned(PyNone, n, sl)
                  ELSE IF StatusCode(r) >= 500
                  THEN IF last THEN Returned(PyNone, n, sl)
                       ELSE CtfMakeApiRequest(resp, attempt + 1, max_retries, sl)
                  ELSE Returned(PyNone, n, sl)
             ELSE Returned(Body(r), n, sl)

Clients == {"FDAAgent", "ClinicalTrialsAgent", "TradeAgent", "ClinicalTrialsFetcher"}

\* One request through client c, from its first attempt.
ClientRequest(c, resp) ==
    CASE c = "FDAAgent" -> FdaMakeApiRequest(resp, 0, MaxRetries, <<>>)
      [] c = "ClinicalTrialsAgent" -> CtaGetWithRetry(resp, 0, MaxRetries, <<>>)
      [] c = "TradeAgent" -> TradeMakeApiRequest(resp, 0, MaxRetries, <<>>)
      [] c = "ClinicalTrialsFetcher" -> CtfMakeApiRequest(resp, 0, MaxRetries, <<>>)

----------------------------------------------------------------------------
(* The upstream, as a behaviour over a whole fetch *)

Scenarios == {"data", "no_data", "timeout_forever", "http500_forever",
              "http429_forever", "http404", "flaky_then_data", "malformed"}

\* The answers a behaviour gives to the successive requests of one client call.
\* "malformed" is a 200 whose body is not the expected document.
ScenarioResp(s) ==
    [k \in 1..RespLen |->
        CASE s = "data" -> "ok"
          [] s = "no_data" -> "ok_empty"
          [] s = "timeout_forever" -> "timeout"
          [] s = "http500_forever" -> "http500"
          [] s = "http429_forever" -> "http429"
          [] s = "http404" -> "http404"
          [] s = "flaky_then_data" -> (IF k = 1 THEN "timeout" ELSE "ok")
          [] OTHER -> "ok"]

\* What the upstream did, in the terms of the specification's SourceResult.
ScenarioClass(s) ==
    CASE s \in {"data", "flaky_then_data"} -> "Success"
      [] s = "no_data" -> "Empty"
      [] OTHER -> "Error"

TransientForever == {"timeout_forever", "http500_forever", "http429_forever"}

----------------------------------------------------------------------------
(* The six source-agent entry points *)

Sources == {"fda", "trade", "patent", "trials", "web", "internal"}

AgentReturned(v) == [kind |-> "returned", value |-> v]
AgentRaised(name) == [kind |-> "raised", value |-> PyException(name)]

\* FDAAgent.get_drug_adverse_events: everything sits in try/except Exception.
GetDrugAdverseEvents(s) ==
    LET out == FdaMakeApiRequest(ScenarioResp(s), 0, MaxRetries, <<>>)
    IN  IF out.kind = "raised" \/ s = "malformed"
        THEN AgentReturned(DataFrame(<<>>))
        ELSE IF ~Truthy(out.value) \/ "results" \notin DOMAIN out.value
        THEN AgentReturned(DataFrame(<<>>))
        ELSE AgentReturned(DataFrame([k \in DOMAIN out.value.results.items |-> "record"]))

\* TradeAgent.get_trade_data_by_drug: generated data, no request is made.
GetTradeDataByDrug(s) ==
    AgentReturned([py |-> "dict", source |-> "Pharma Market Intelligence",
                   market_size |-> "generated", key_insights |-> "generated"])

\* PatentLandscapeAgent.get_patent_analysis: generated data.
GetPatentAnalysis(s) ==
    AgentReturned([py |-> "dict", active_patents |-> "generated",
                   freedom_to_operate |-> "generated", key_insights |-> "generated"])

\* InternalInsightsAgent.get_internal_insights: generated data.
GetInternalInsights(s) ==
    AgentReturned([py |-> "dict", previous_research |-> "generated",
                   strategic_fit |-> "generated", key_insights |-> "generated"])

\* ClinicalTrialsAgent._process_trial: every field is read with a default.
ProcessTrial(study) ==
    [py |-> "dict",
     title |-> study, nct_id |-> study, status |-> "Status not available",
     phase |-> "N/A", start_date |-> "N/A", completion_date |-> "N/A",
     enrollment |-> "N/A", url |-> "ct2/show/id",
     interventions |-> "Not specified", conditions |-> "Not specified",
     sponsors |-> "Not specified", locations |-> "Not specified",
     source |-> "clinicaltrials.gov", study_type |-> "N/A",
     description |-> "No description available"]

\* ClinicalTrialsAgent._process_api_response: the list of processed studies.
ProcessedTrials(studies) ==
    [py |-> "list", items |-> [k \in DOMAIN studies.items |-> ProcessTrial(studies.items[k])]]

\* ClinicalTrialsAgent._search_clinicaltrials: the processed response, or None.
SearchClinicalTrials(s) ==
    LET out == CtaGetWithRetry(ScenarioResp(s), 0, MaxRetries, <<>>)
        data == out.value
    IN  IF s # "malformed" /\ Truthy(data) /\ Truthy(data.results)
        THEN [py |-> "dict", phase_ii |-> 0, phase_iii |-> 0,
              trials |-> ProcessedTrials(data.results), insights |-> "titles",
              source |-> "clinicaltrials.gov", total_count |-> Len(data.results.items)]
        ELSE PyNone

NoTrialsFound ==
    [py |-> "dict",
     message |-> "No clinical trials found for the specified criteria.",
     suggestion |-> "Try checking the drug name spelling",
     status |-> "No trials found",
     phase_ii_trials |-> 0, phase_iii_trials |-> 0,
     recent_trials |-> EmptyList,
     key_insights |-> "No clinical trial data available for this search.",
     source |-> "clinicaltrials.gov", search_url |-> "ct2/results?term=drug"]

\* The dict of the except branch of get_clinical_trials.
TrialsError ==
    [py |-> "dict",
     error |-> "An error occurred while fetching clinical trials",
     status |-> "Error processing request",
     suggestion |-> "Please try again later",
     phase_ii_trials |-> 0, phase_iii_trials |-> 0,
     recent_trials |-> EmptyList,
     key_insights |-> "Error loading clinical trial data.",
     source |-> "clinicaltrials.gov", search_url |-> "ct2/results?term=drug"]

\* A get_clinical_trials that hands back the processed response as it is.
TrialsFoundRaw(r) == r

TrialsFound(r) ==
    [py |-> "dict",
     phase_ii_trials |-> r.phase_ii, phase_iii_trials |-> r.phase_iii,
     recent_trials |-> r.trials, key_insights |-> r.insights,
     total_studies |-> r.total_count, status |-> "Found studies",
     source |-> "clinicaltrials.gov", search_url |-> "ct2/results?term=drug"]

\* ClinicalTrialsAgent.get_clinical_trials; ss[1] is the upstream's behaviour
\* during the search with the condition, ss[2] during the broader search.
GetClinicalTrials(ss, condition) ==
    LET first == SearchClinicalTrials(ss[1])
        found(r) == Truthy(r) /\ Truthy(r.trials)
        second == IF ~found(first) /\ condition
                  THEN SearchClinicalTrials(ss[2]) ELSE first
    IN  IF found(second) THEN AgentReturned(TrialsFound(second))
        ELSE AgentReturned(NoTrialsFound)

\* WebIntelligenceAgent._search_pubmed: only RequestException is caught; a body
\* ElementTree cannot parse raises ParseError through it.
SearchPubmed(s) ==
    LET r == ScenarioResp(s)[1]
    IN  IF s = "malformed" THEN AgentRaised("ParseError")
        ELSE IF NoResponse(r) \/ RaiseForStatusRaises(r) THEN AgentReturned(EmptyList)
        ELSE AgentReturned(Body(r).results)

\* WebIntelligenceAgent.search_evidence on a cold cache.
SearchEvidence(s) ==
    LET pubmed == SearchPubmed(s)
        news == IF s = "data" THEN [py |-> "list", items |-> <<"article">>] ELSE EmptyList
    IN  IF pubmed.kind = "raised" THEN pubmed
        ELSE AgentReturned(
               [py |-> "dict",
                sources |-> [py |-> "list",
                             items |-> (IF Truthy(pubmed.value) THEN <<"PubMed">> ELSE <<>>)
                                       \o (IF Truthy(news) THEN <<"Google News">> ELSE <<>>)],
                findings |-> IF Truthy(pubmed.value) THEN pubmed.value
                             ELSE [py |-> "list", items |-> <<"No recent scientific literature found on PubMed.">>],
                news |-> news])

\* The entry point analyze_drug hands to asyncio.to_thread for source a.
AgentFetch(a, ss, condition) ==
    CASE a = "fda" -> GetDrugAdverseEvents(ss[1])
      [] a = "trade" -> GetTradeDataByDrug(ss[1])
      [] a = "patent" -> GetPatentAnalysis(ss[1])
      [] a = "trials" -> GetClinicalTrials(ss, condition)
      [] a = "web" -> SearchEvidence(ss[1])
      [] a = "internal" -> GetInternalInsights(ss[1])

\* The behaviours each entry point can meet: the generated sources meet none.
AgentScenarios(a) ==
    CASE a \in {"trade", "patent", "internal"} -> {"data"}
      [] OTHER -> Scenarios

----------------------------------------------------------------------------
(* analyze_drug and its caller: values *)

\* What the user can type into the form (the form refuses an empty name).
Drugs == {<<"a">>, <<"A">>, <<"a", " ">>, <<" ">>}
Areas == {<<>>, <<"b">>}

\* hashlib.md5(...).hexdigest(), a digest taken to be collision-free.
Md5(s) == [md5 |-> s]

get_analysis_cache_key(d, a) == Md5(Lower(d) \o <<"_">> \o Lower(a))

CacheKeys == {get_analysis_cache_key(d, a) : d \in Drugs, a \in Areas}

validate_drug_name(d) == ~(d = <<>> \/ StripIsEmpty(d))

\* A session that keeps no record: every lookup misses.
CacheDisabled(key) == FALSE

\* `cache_key in st.session_state`
CacheHit(key) == session[key] # 0

\* An update_progress that reports the fraction instead of the percentage.
ProgressFraction(progress, total_stages) == progress \div total_stages

\* update_progress: int((progress / total_stages) * 100)
ProgressPercent(progress, total_stages) == (progress * 100) \div total_stages

\* One send through send_progress_update, and whether the sink took it.
ProgressEvent(percent, status, ok) == [progress |-> percent, status |-> status, ok |-> ok]
UpdateProgress(stage, ok) == ProgressEvent(ProgressPercent(stage, 5), "Analysis in Progress", ok)

\* Task states
NotCreated == [st |-> "none"]
Running == [st |-> "running"]
Abandoned == [st |-> "abandoned"]
Done(s, out) == [st |-> "done", scn |-> s, out |-> out]
\* A task whose thread is blocked in a call that will never return.
Hung == [st |-> "hung"]

\* A task's outcome under behaviour s; "thread_fail" is asyncio.to_thread
\* itself failing to run the entry point.
TaskOutcome(a, s, condition) ==
    IF s = "thread_fail" THEN AgentRaised("RuntimeError")
    ELSE AgentFetch(a, <<s, s>>, condition)

\* A wait that resumes the caller at the first finished task
\* (asyncio.wait with FIRST_COMPLETED).
GatherFirstCompleted == \E a \in Sources : tasks[a].st = "done"

\* asyncio.gather(*tasks, return_exceptions=True) resumes the caller once
\* every task has finished.
GatherReady == \A a \in Sources : tasks[a].st = "done"

\* results[k]: the task's return value, or the exception it raised.
TaskResult(t) == IF t.st = "done" THEN t.out.value ELSE PyNone

\* process_result(result, default): `default or {}` evaluates bool(default).
ProcessResult(res, default) ==
    IF IsException(res)
    THEN IF RaisesOnBool(default) THEN AgentRaised("ValueError")
         ELSE AgentReturned(IF Truthy(default) THEN default ELSE EmptyDict)
    ELSE AgentReturned(IF res # PyNone THEN res ELSE EmptyDict)

\* fda_data.to_dict(orient='records') when fda_data has to_dict
ToRecords(v) == IF v.py = "DataFrame" THEN [py |-> "list", items |-> v.rows] ELSE v

\* x or fallback
Or(x, fallback) == IF Truthy(x) THEN x ELSE fallback

DefaultPatent == [py |-> "dict", active_patents |-> 0, freedom_to_operate |-> "N/A",
                  key_insights |-> "No patent data available"]
DefaultTrials == [py |-> "dict", phase_ii_trials |-> 0, phase_iii_trials |-> 0,
                  key_insights |-> "No clinical trials data available"]
DefaultWeb == [py |-> "dict", sources |-> EmptyList,
               findings |-> "No web intelligence data available"]
DefaultInternal == [py |-> "dict", previous_research |-> EmptyList,
                    strategic_fit |-> "N/A",
                    key_insights |-> "No internal insights available"]

General == <<"G", "e", "n", "e", "r", "a", "l">>

\* The dict `analysis` built from the processed results.
Assemble(d, a, t, fda_data, res) ==
    [py |-> "dict",
     drug_name |-> d,
     therapeutic_area |-> IF a # <<>> THEN a ELSE General,
     timestamp |-> t,
     adverse_events |-> fda_data,
     trade_data |-> ProcessResult(res["trade"], EmptyDict).value,
     patent_analysis |-> Or(ProcessResult(res["patent"], PyNone).value, DefaultPatent),
     clinical_trials |-> Or(ProcessResult(res["trials"], PyNone).value, DefaultTrials),
     web_intelligence |-> Or(ProcessResult(res["web"], PyNone).value, DefaultWeb),
     internal_insights |-> Or(ProcessResult(res["internal"], PyNone).value, DefaultInternal)]

\* The key of `analysis` that holds source a's entry.
EntryKey(a) ==
    CASE a = "fda" -> "adverse_events"
      [] a = "trade" -> "trade_data"
      [] a = "patent" -> "patent_analysis"
      [] a = "trials" -> "clinical_trials"
      [] a = "web" -> "web_intelligence"
      [] a = "internal" -> "internal_insights"

\* What analyze_drug handed back
Pending == [kind |-> "pending"]
Object(oid) == [kind |-> "object", oid |-> oid]
Raising(e) == [kind |-> "raising", value |-> e]
ErrorDict(e) == [kind |-> "value",
                 value |-> [py |-> "dict", status |-> "error", message |-> e.name]]
Propagated(e) == [kind |-> "raised", value |-> e]

\* dict[key] = value on a dict that may not have the key yet
SetItem(dict, key, value) ==
    [k \in DOMAIN dict \cup {key} |-> IF k = key THEN value ELSE dict[k]]

----------------------------------------------------------------------------
(* analyze_drug, step by step *)

Key == get_analysis_cache_key(drug_name, therapeutic_area)

\* Tasks still running when the call leaves its try block are never awaited.
Abandon(ts) == [a \in Sources |-> IF ts[a].st = "running" THEN Abandoned ELSE ts[a]]

\* Leaving the try block with exception e.
Throw(e) ==
    /\ pc' = "except"
    /\ result' = Raising(e)
    /\ tasks' = Abandon(tasks)

\* app.py 313-324: validation, the cache check, the first progress event.
Enter ==
    /\ pc = "entered"
    /\ IF ~validate_drug_name(drug_name)
       THEN Throw(PyException("ValueError")) /\ UNCHANGED events
       ELSE IF CacheHit(Key)
       THEN /\ pc' = "returned"
            /\ result' = Object(session[Key])
            /\ UNCHANGED <<tasks, events>>
       ELSE \E ok \in BOOLEAN :
            /\ events' = Append(events, UpdateProgress(1, ok))
            /\ IF ok THEN pc' = "dispatch" /\ UNCHANGED <<result, tasks>>
               ELSE Throw(PyException("SendError"))
    /\ UNCHANGED <<drug_name, therapeutic_area, analysis, dispatched>>
    /\ UNCHANGED <<sessVars, fetchVars>>

\* app.py 327-369: one task per source agent is created, then the second
\* progress event is sent.
Dispatch ==
    /\ pc = "dispatch"
    /\ dispatched' = dispatched + Cardinality(Sources)
    /\ \E ok \in BOOLEAN :
        /\ events' = Append(events, UpdateProgress(2, ok))
        /\ IF ok
           THEN pc' = "gather" /\ tasks' = [a \in Sources |-> Running] /\ UNCHANGED result
           ELSE /\ pc' = "except"
                /\ result' = Raising(PyException("SendError"))
                /\ tasks' = [a \in Sources |-> Abandoned]
    /\ UNCHANGED <<drug_name, therapeutic_area, analysis>>
    /\ UNCHANGED <<sessVars, fetchVars>>

\* The thread of source a finishes, the upstream having behaved as s.
TaskComplete(a, s) ==
    /\ pc = "gather"
    /\ tasks[a].st = "running"
    /\ tasks' = [tasks EXCEPT ![a] = Done(s, TaskOutcome(a, s, therapeutic_area # <<>>))]
    /\ UNCHANGED <<pc, drug_name, therapeutic_area, analysis, result, events, dispatched>>
    /\ UNCHANGED <<sessVars, fetchVars>>

\* The sources whose entry point makes a blocking call without a timeout:
\* feedparser.parse(url) in WebIntelligenceAgent._search_google_news.
HangingSources == {"web"}

\* The thread of source a blocks for good: the peer accepted the connection
\* and never answers.
TaskHangs(a) ==
    /\ pc = "gather"
    /\ a \in HangingSources
    /\ tasks[a].st = "running"
    /\ tasks' = [tasks EXCEPT ![a] = Hung]
    /\ UNCHANGED <<pc, drug_name, therapeutic_area, analysis, result, events, dispatched>>
    /\ UNCHANGED <<sessVars, fetchVars>>

\* app.py 370-422: gather returns, the results are processed, the third
\* progress event is sent and `analysis` is built.
GatherAndAssemble ==
    /\ pc = "gather"
    /\ GatherReady
    /\ LET res == [a \in Sources |-> TaskResult(tasks[a])]
           fda == ProcessResult(res["fda"], DataFrame(<<>>))
       IN  IF fda.kind = "raised"
           THEN Throw(fda.value) /\ UNCHANGED <<events, analysis>>
           ELSE \E ok \in BOOLEAN :
                /\ events' = Append(events, UpdateProgress(3, ok))
                /\ IF ok
                   THEN /\ analysis' = Assemble(drug_name, therapeutic_area, now,
                                                ToRecords(fda.value), res)
                        /\ pc' = "finalize"
                        /\ UNCHANGED <<result, tasks>>
                   ELSE Throw(PyException("SendError")) /\ UNCHANGED analysis
    /\ UNCHANGED <<drug_name, therapeutic_area, dispatched>>
    /\ UNCHANGED <<sessVars, fetchVars>>

\* app.py 424-428: the fourth progress event, then the record is stored.
Finalize ==
    /\ pc = "finalize"
    /\ \E ok \in BOOLEAN :
        /\ events' = Append(events, UpdateProgress(4, ok))
        /\ IF ok
           THEN /\ heap' = Append(heap, [py |-> "dict", status |-> "success",
                                         analysis |-> analysis])
                /\ session' = [session EXCEPT ![Key] = Len(heap) + 1]
                /\ stored_at' = [stored_at EXCEPT ![Key] = now]
                /\ pc' = "complete"
                /\ UNCHANGED <<result, tasks>>
           ELSE Throw(PyException("SendError")) /\ UNCHANGED <<heap, session, stored_at>>
    /\ UNCHANGED <<drug_name, therapeutic_area, analysis, dispatched>>
    /\ UNCHANGED <<current_analysis, recent_analyses, calls, now, fetchVars>>

\* app.py 430-431: the last progress event, then the stored record is returned.
Complete ==
    /\ pc = "complete"
    /\ \E ok \in BOOLEAN :
        /\ events' = Append(events, UpdateProgress(5, ok))
        /\ IF ok
           THEN pc' = "returned" /\ result' = Object(session[Key]) /\ UNCHANGED tasks
           ELSE Throw(PyException("SendError"))
    /\ UNCHANGED <<drug_name, therapeutic_area, analysis, dispatched>>
    /\ UNCHANGED <<sessVars, fetchVars>>

\* app.py 433-445: the error is reported through the same sink, then an
\* error dict is returned; a send that raises here leaves analyze_drug.
Except ==
    /\ pc = "except"
    /\ \E ok \in BOOLEAN :
        /\ events' = Append(events, ProgressEvent(0, "Error", ok))
        /\ IF ok
           THEN pc' = "returned" /\ result' = ErrorDict(result.value)
           ELSE pc' = "raised" /\ result' = Propagated(PyException("SendError"))
    /\ UNCHANGED <<drug_name, therapeutic_area, tasks, analysis, dispatched>>
    /\ UNCHANGED <<sessVars, fetchVars>>

----------------------------------------------------------------------------
(* handle_analysis_page, the caller *)

\* The arguments, locals and return value of a finished call are gone.
ReleaseFrame ==
    /\ drug_name' = <<>>
    /\ therapeutic_area' = <<>>
    /\ tasks' = [a \in Sources |-> NotCreated]
    /\ analysis' = PyNone
    /\ result' = Pending
    /\ events' = <<>>
    /\ dispatched' = 0

\* app.py 666-671: the form is submitted with a non-empty drug name.
Submit(d, a) ==
    /\ pc = "idle"
    /\ calls < MaxCalls
    /\ d # <<>>
    /\ pc' = "entered"
    /\ drug_name' = d
    /\ therapeutic_area' = a
    /\ tasks' = [s \in Sources |-> NotCreated]
    /\ analysis' = PyNone
    /\ result' = Pending
    /\ events' = <<>>
    /\ dispatched' = 0
    /\ calls' = calls + 1
    /\ UNCHANGED <<session, heap, current_analysis, recent_analyses, now, stored_at, fetchVars>>

\* app.py 672-679: the returned dict is tagged with a fresh analysis_id and
\* remembered, or the failure is shown.  uuid4 is the call's number.
HandleResult ==
    /\ pc = "returned"
    /\ IF result.kind = "object"
       THEN /\ heap' = [heap EXCEPT ![result.oid].analysis = SetItem(@, "analysis_id", calls)]
            /\ current_analysis' = result.oid
            /\ recent_analyses' = Append(recent_analyses, result.oid)
       ELSE /\ current_analysis' = 0
            /\ UNCHANGED <<heap, recent_analyses>>
    /\ pc' = "idle"
    /\ ReleaseFrame
    /\ UNCHANGED <<session, calls, now, stored_at, fetchVars>>

\* The exception analyze_drug let through ends this run of the page.
Propagate ==
    /\ pc = "raised"
    /\ pc' = "idle"
    /\ ReleaseFrame
    /\ UNCHANGED <<sessVars, fetchVars>>

\* Time passes.
Tick ==
    /\ now < MaxTime
    /\ now' = now + 1
    /\ UNCHANGED <<orchVars, fetchVars>>
    /\ UNCHANGED <<session, heap, current_analysis, recent_analyses, calls, stored_at>>

----------------------------------------------------------------------------
(* ClinicalTrialsAgent: the rate limiter of one instance *)

\* self.min_request_interval = 1.0
min_request_interval == 1

Threads == {1, 2}

\* A thread that never calls the instance, one between two requests, and one
\* inside _get_with_retry.
Off == [pc |-> "off", attempt |-> 0, wake |-> 0]
Idle == [pc |-> "idle", attempt |-> 0, wake |-> 0]
InCall(pc_, attempt, wake) == [pc |-> pc_, attempt |-> attempt, wake |-> wake]

\* A _rate_limit that never sleeps.
SleepForNothing(elapsed) == 0

\* _rate_limit: the argument of its time.sleep, 0 when it does not sleep.
SleepFor(elapsed) ==
    IF elapsed < min_request_interval THEN min_request_interval - elapsed ELSE 0

\* A caller enters _get_with_retry: `for attempt in range(max_retries)`.
StartRequest(t) ==
    /\ thr[t].pc = "idle"
    /\ thr' = [thr EXCEPT ![t] = InCall("rate_limit", 0, 0)]
    /\ UNCHANGED <<clock, last_request_time, issued>>
    /\ UNCHANGED <<fMode, fWho, fResp, fScenario, fCondition, fOut, cache, orchVars, sessVars, libVars>>

\* _rate_limit, lines 32-34: elapsed is computed and the sleep is begun.
RateLimit(t) ==
    /\ thr[t].pc = "rate_limit"
    /\ LET secs == SleepFor(clock - last_request_time)
       IN  thr' = [thr EXCEPT ![t] =
                      IF secs > 0 THEN InCall("sleeping", thr[t].attempt, clock + secs)
                      ELSE InCall("stamp", thr[t].attempt, 0)]
    /\ UNCHANGED <<clock, last_request_time, issued>>
    /\ UNCHANGED <<fMode, fWho, fResp, fScenario, fCondition, fOut, cache, orchVars, sessVars, libVars>>

\* time.sleep returns, no sooner than asked.
WakeUp(t) ==
    /\ thr[t].pc = "sleeping"
    /\ clock >= thr[t].wake
    /\ thr' = [thr EXCEPT ![t] = InCall("stamp", thr[t].attempt, 0)]
    /\ UNCHANGED <<clock, last_request_time, issued>>
    /\ UNCHANGED <<fMode, fWho, fResp, fScenario, fCondition, fOut, cache, orchVars, sessVars, libVars>>

\* _rate_limit line 35 and _get_with_retry lines 42-51: the call is stamped
\* and made; it is answered by r, and a failed attempt that is not the last
\* begins its backoff sleep.
Request(t, r) ==
    /\ thr[t].pc = "stamp"
    /\ Len(issued) < MaxIssued
    /\ last_request_time' = clock
    /\ issued' = Append(issued, [by |-> t, at |-> clock])
    /\ thr' = [thr EXCEPT ![t] =
                  IF ~(NoResponse(r) \/ RaiseForStatusRaises(r)) THEN Idle
                  ELSE IF thr[t].attempt = MaxRetries - 1 THEN Idle
                  ELSE InCall("backoff", thr[t].attempt, clock + 2 ^ thr[t].attempt)]
    /\ UNCHANGED clock
    /\ UNCHANGED <<fMode, fWho, fResp, fScenario, fCondition, fOut, cache, orchVars, sessVars, libVars>>

\* The backoff sleep returns and the next attempt begins.
BackoffDone(t) ==
    /\ thr[t].pc = "backoff"
    /\ clock >= thr[t].wake
    /\ thr' = [thr EXCEPT ![t] = InCall("rate_limit", thr[t].attempt + 1, 0)]
    /\ UNCHANGED <<clock, last_request_time, issued>>
    /\ UNCHANGED <<fMode, fWho, fResp, fScenario, fCondition, fOut, cache, orchVars, sessVars, libVars>>

\* A second passes.
RateTick ==
    /\ clock < MaxRateClock
    /\ clock' = clock + 1
    /\ UNCHANGED <<last_request_time, thr, issued>>
    /\ UNCHANGED <<fMode, fWho, fResp, fScenario, fCondition, fOut, cache, orchVars, sessVars, libVars>>

----------------------------------------------------------------------------
(* WebIntelligenceAgent and TradeAgent: the cache of one instance *)

CachingAgents == {"web", "trade"}

\* self.cache_ttl = timedelta(hours=6), in seconds
web_cache_ttl == 21600
\* self.cache_ttl = 3600
trade_cache_ttl == 3600

cache_ttl(a) == IF a = "web" THEN web_cache_ttl ELSE trade_cache_ttl

\* What search_evidence / _fetch_pharma_market_data are asked for.
CacheQueries == {<<"a">>, <<"A">>, <<"b">>}

\* f"web_intel_{query.lower()}", f"pharma_market_{drug_name.lower()}"
AgentKey(a, q) ==
    (IF a = "web" THEN <<"web_intel_">> ELSE <<"pharma_market_">>) \o Lower(q)

AgentKeys(a) == {AgentKey(a, q) : q \in CacheQueries}

\* self.cache[key] = (data, timestamp); a key not in self.cache.
NoEntry == [present |-> FALSE, data |-> PyNone, timestamp |-> 0]
CacheEntry(data, t) == [present |-> TRUE, data |-> data, timestamp |-> t]

\* An entry that lives through the instant at which its age equals the ttl.
FreshInclusive(age, ttl) == age <= ttl

\* `now - timestamp < self.cache_ttl`
Fresh(age, ttl) == age < ttl

\* A read that finds nothing.
GetCachedNever(a, key) == PyNone

\* _get_cached / _get_cached_data
GetCached(a, key) ==
    IF cache[a][key].present /\ Fresh(clock - cache[a][key].timestamp, cache_ttl(a))
    THEN cache[a][key].data
    ELSE PyNone

\* _set_cached / _set_cached_data
SetCached(a, key, data) == [cache EXCEPT ![a][key] = CacheEntry(data, clock)]

\* The values random.uniform can draw for the generated market data.
Draws == {1, 2}

\* _fetch_pharma_market_data: the generated result
MarketData(g) == [py |-> "dict", market_size |-> g, source |-> "Pharma Market Intelligence"]

\* The session.get / feedparser.parse calls of search_evidence on a miss:
\* esearch, esummary when esearch listed ids, and the news feed unless
\* _search_pubmed raised.
SearchEvidenceRequests(s) ==
    CASE s = "malformed" -> 1
      [] s = "data" -> 3
      [] OTHER -> 2

\* One finished call of a caching entry point: its result, the upstream
\* requests and the data generations it made, and what its cache read saw.
CacheCall(out, key, read, requests, generated) ==
    [kind |-> out.kind, value |-> out.value, key |-> key, read |-> read,
     before |-> cache[fWho][key], at |-> clock,
     requests |-> requests, generated |-> generated]

\* WebIntelligenceAgent.search_evidence(q), the upstream behaving as s.
WebSearchEvidence(q, s) ==
    /\ fMode = "cache"
    /\ fWho = "web"
    /\ LET key == AgentKey("web", q)
           cached_data == GetCached("web", key)
           out == SearchEvidence(s)
       IN  IF Truthy(cached_data)
           THEN /\ fOut' = CacheCall(AgentReturned(cached_data), key, cached_data, 0, FALSE)
                /\ UNCHANGED cache
           ELSE /\ fOut' = CacheCall(out, key, cached_data, SearchEvidenceRequests(s), FALSE)
                /\ cache' = IF out.kind = "raised" THEN cache
                            ELSE SetCached("web", key, out.value)
    /\ UNCHANGED <<fMode, fWho, fResp, fScenario, fCondition, rateVars, orchVars, sessVars, libVars>>

\* TradeAgent._fetch_pharma_market_data(d), random drawing g.
FetchPharmaMarketData(d, g) ==
    /\ fMode = "cache"
    /\ fWho = "trade"
    /\ LET key == AgentKey("trade", d)
           cached == GetCached("trade", key)
       IN  IF Truthy(cached)
           THEN /\ fOut' = CacheCall(AgentReturned(cached), key, cached, 0, FALSE)
                /\ UNCHANGED cache
           ELSE /\ fOut' = CacheCall(AgentReturned(MarketData(g)), key, cached, 0, TRUE)
                /\ cache' = SetCached("trade", key, MarketData(g))
    /\ UNCHANGED <<fMode, fWho, fResp, fScenario, fCondition, rateVars, orchVars, sessVars, libVars>>

\* The instants sampled: the start, and the neighbourhood of the expiry of
\* an entry stored at the start.
Instants ==
    {min_request_interval + x : x \in 0..Around}
    \cup {min_request_interval + cache_ttl(a) + x - Around : a \in CachingAgents, x \in 0..(2 * Around)}

\* Time passes up to a later instant.
Advance(t) ==
    /\ t \in Instants
    /\ t > clock
    /\ clock' = t
    /\ UNCHANGED <<last_request_time, thr, issued, cache>>
    /\ UNCHANGED <<fMode, fWho, fResp, fScenario, fCondition, fOut, orchVars, sessVars, libVars>>

----------------------------------------------------------------------------
(* The generated sources and the shared generator of module random *)

\* ord(c)
Ord(c) == CASE c = "a" -> 97 [] c = "b" -> 98 [] c = "A" -> 65 [] c = "B" -> 66
            [] c = " " -> 32 [] OTHER -> 0

RECURSIVE SumOrd(_)
SumOrd(str) == IF str = <<>> THEN 0 ELSE Ord(Head(str)) + SumOrd(Tail(str))

\* seed = sum(ord(c) for c in drug_name.lower())
SeedOf(d) == SumOrd(Lower(d))

\* The generator: the seed it was last given and the draws made since; a
\* generator nobody seeded was seeded by the interpreter from os.urandom.
Unseeded == [seed |-> -1, n |-> 0]
Seeded(seed) == [seed |-> seed, n |-> 0]

\* The value a draw returns is a function of the generator's state.
DrawnFrom(g) == [seed |-> g.seed, n |-> g.n]

GenSources == {"patent", "internal", "trade"}

\* get_patent_analysis and _get_or_create_drug_profile seed and then draw;
\* _fetch_pharma_market_data draws without seeding.
GenProgram(a) ==
    (IF a = "trade" THEN <<>> ELSE <<"seed">>) \o [k \in 1..GenDraws |-> "draw"]

GenStart == [pc |-> 1, drawn |-> <<>>]
GenFinished(a) == gen[a].pc > Len(GenProgram(a))

\* random.seed(seed) in the thread of source a.
RandomSeed(a) ==
    /\ ~GenFinished(a)
    /\ GenProgram(a)[gen[a].pc] = "seed"
    /\ rng' = Seeded(SeedOf(gdrug))
    /\ gen' = [gen EXCEPT ![a].pc = @ + 1]
    /\ UNCHANGED <<gdrug, fMode, fWho, fResp, fScenario, fCondition, fOut, rateVars,
                   cache, orchVars, sessVars, notRand>>

\* One random.randint / uniform / choice in the thread of source a.
RandomDraw(a) ==
    /\ ~GenFinished(a)
    /\ GenProgram(a)[gen[a].pc] = "draw"
    /\ rng' = [rng EXCEPT !.n = @ + 1]
    /\ gen' = [gen EXCEPT ![a].pc = @ + 1, ![a].drawn = Append(@, DrawnFrom(rng))]
    /\ UNCHANGED <<gdrug, fMode, fWho, fResp, fScenario, fCondition, fOut, rateVars,
                   cache, orchVars, sessVars, notRand>>

\* No generated source is running.
RandIdle ==
    /\ gdrug = <<>>
    /\ rng = Unseeded
    /\ gen = [a \in GenSources |-> GenStart]

----------------------------------------------------------------------------
(* UnifiedAPIClient: provider selection and fallback *)

ProviderNames == {"deepseek", "groq", "openai"}

\* A priority order that puts the fallback of last resort first.
priority_reversed == <<"openai", "groq", "deepseek">>

\* priority_order = ["deepseek", "groq", "openai"]
priority_order == <<"deepseek", "groq", "openai">>

NoProvider == "None"

\* _select_provider: the first name of priority_order that is configured,
\* NoProvider when the loop falls through to the raise.
RECURSIVE SelectFrom(_, _)
SelectFrom(order, configured) ==
    IF order = <<>> THEN NoProvider
    ELSE IF Head(order) \in configured THEN Head(order)
    ELSE SelectFrom(Tail(order), configured)

\* The outcome of a chat_completion call: the providers whose create() was
\* called, in order, and the one that answered, or the raise.
ChatReturned(tried, by) == [kind |-> "returned", tried |-> tried, by |-> by]
ChatRaised(tried) == [kind |-> "raised", tried |-> tried, by |-> NoProvider]
NoChat == [kind |-> "none", tried |-> <<>>, by |-> NoProvider]

\* chat_completion lines 140-165: the fallback loop over what is left of
\* priority_order; `up` are the providers whose create() answers.
RECURSIVE Fallback(_, _, _, _, _)
Fallback(order, configured, current, up, tried) ==
    IF order = <<>> THEN ChatRaised(tried)
    ELSE LET name == Head(order)
         IN  IF name # current /\ name \in configured
             THEN IF name \in up THEN ChatReturned(Append(tried, name), name)
                  ELSE Fallback(Tail(order), configured, current, up, Append(tried, name))
             ELSE Fallback(Tail(order), configured, current, up, tried)

\* chat_completion lines 124-136: the current provider is tried first.
ChatCompletionOutcome(configured, current, up) ==
    IF current \in up THEN ChatReturned(<<current>>, current)
    ELSE Fallback(priority_order, configured, current, up, <<current>>)

\* __init__: _setup_providers has filled self.providers from the
\* environment; _select_provider picks one or raises ValueError.
Construct ==
    /\ api_pc = "new"
    /\ current_provider' = SelectFrom(priority_order, providers)
    /\ api_pc' = IF current_provider' = NoProvider THEN "failed" ELSE "ready"
    /\ UNCHANGED <<providers, chat>>
    /\ UNCHANGED <<fMode, fWho, fResp, fScenario, fCondition, fOut, rateVars,
                   cache, orchVars, sessVars, notApi>>

\* One chat_completion call while the providers in `up` answer.
ChatCompletion(up) ==
    /\ api_pc = "ready"
    /\ LET out == ChatCompletionOutcome(providers, current_provider, up)
       IN  /\ chat' = out @@ [before |-> current_provider, up |-> up]
           /\ current_provider' = IF out.kind = "returned" THEN out.by ELSE current_provider
    /\ UNCHANGED <<providers, api_pc>>
    /\ UNCHANGED <<fMode, fWho, fResp, fScenario, fCondition, fOut, rateVars,
                   cache, orchVars, sessVars, notApi>>

\* No UnifiedAPIClient is in use.
ApiIdle ==
    /\ providers = {}
    /\ current_provider = NoProvider
    /\ api_pc = "off"
    /\ chat = NoChat

----------------------------------------------------------------------------
(* The cache keys two queries are given *)

\* Drug names and therapeutic areas with an underscore or a space inside.
KeyDrugs == {<<"a">>, <<"A">>, <<"a", "_", "a">>, <<"a", " ", "a">>}
KeyAreas == {<<>>, <<"a">>, <<"a", "_", "a">>, <<"a", " ", "a">>}

Query(d, a) == [drug_name |-> d, therapeutic_area |-> a]

\* app.py 357: the query handed to search_evidence
WebQuery(d, a) == d \o <<" ">> \o a

\* The record cache key and the key of the web agent's cache for query q.
KeysOf(q) ==
    [record |-> get_analysis_cache_key(q.drug_name, q.therapeutic_area),
     web |-> AgentKey("web", WebQuery(q.drug_name, q.therapeutic_area))]

\* analyze_drug is called for each of the two queries and computes its keys.
ComputeKeys ==
    /\ kKeys = <<>>
    /\ kQueries # <<>>
    /\ kKeys' = [k \in DOMAIN kQueries |-> KeysOf(kQueries[k])]
    /\ UNCHANGED kQueries
    /\ UNCHANGED <<fMode, fWho, fResp, fScenario, fCondition, fOut, rateVars,
                   cache, orchVars, sessVars, notKey>>

\* No keys are being compared.
KeyIdle == kQueries = <<>> /\ kKeys = <<>>

----------------------------------------------------------------------------
(* ConnectionManager and websocket_endpoint *)

WsClients == {"c1", "c2"}
Sockets == 1..MaxSockets

\* A websocket nobody opened yet; one whose handler runs; one whose peer is
\* gone while its handler still sleeps between two pings; one whose handler
\* has ended.
Unused == [st |-> "unused", client_id |-> "none"]
Open(c) == [st |-> "open", client_id |-> c]
Broken(c) == [st |-> "broken", client_id |-> c]
Closed(c) == [st |-> "closed", client_id |-> c]

Registration(c, ws) == [client_id |-> c, ws |-> ws]

HasKey(conns, c) == \E i \in DOMAIN conns : conns[i].client_id = c
Lookup(conns, c) == conns[CHOOSE i \in DOMAIN conns : conns[i].client_id = c].ws

\* self.active_connections[client_id] = websocket: an existing key keeps its
\* place, a new key goes last.
DictSet(conns, c, ws) ==
    IF HasKey(conns, c)
    THEN [i \in DOMAIN conns |-> IF conns[i].client_id = c THEN Registration(c, ws) ELSE conns[i]]
    ELSE Append(conns, Registration(c, ws))

\* disconnect: `if client_id in self.active_connections: del ...`
Disconnect(conns, c) == SelectSeq(conns, LAMBDA r : r.client_id # c)

\* send_text on a websocket raises when the peer is gone.
SendRaises(ws) == sockets[ws].st # "open"

BroadcastReturned(delivered, conns) ==
    [op |-> "broadcast", kind |-> "returned", delivered |-> delivered, conns |-> conns]
BroadcastRaised(delivered, conns) ==
    [op |-> "broadcast", kind |-> "raised", delivered |-> delivered, conns |-> conns]

\* broadcast: the for loop over self.active_connections.items().  The dict
\* iterator raises RuntimeError at its next step once the dict has changed
\* size, before it looks whether any item is left.
RECURSIVE BroadcastLoop(_, _, _, _, _)
BroadcastLoop(i, conns, used, exclude, delivered) ==
    IF Len(conns) # used THEN BroadcastRaised(delivered, conns)
    ELSE IF i > Len(conns) THEN BroadcastReturned(delivered, conns)
    ELSE LET c == conns[i].client_id
             ws == conns[i].ws
         IN  IF c \in exclude THEN BroadcastLoop(i + 1, conns, used, exclude, delivered)
             ELSE IF ~SendRaises(ws)
             THEN BroadcastLoop(i + 1, conns, used, exclude, Append(delivered, c))
             ELSE BroadcastLoop(i + 1, Disconnect(conns, c), used, exclude, delivered)

\* websocket_endpoint begins: manager.connect accepts and registers.
WsConnect(ws, c) ==
    /\ sockets[ws] = Unused
    /\ \A r \in Sockets : r < ws => sockets[r] # Unused
    /\ sockets' = [sockets EXCEPT ![ws] = Open(c)]
    /\ active_connections' = DictSet(active_connections, c, ws)
    /\ UNCHANGED wsOut
    /\ UNCHANGED <<fMode, fWho, fResp, fScenario, fCondition, fOut, rateVars,
                   cache, orchVars, sessVars, notWs>>

\* The peer of a websocket goes away; its handler is asleep between pings.
PeerGone(ws) ==
    /\ sockets[ws].st = "open"
    /\ sockets' = [sockets EXCEPT ![ws] = Broken(sockets[ws].client_id)]
    /\ UNCHANGED <<active_connections, wsOut>>
    /\ UNCHANGED <<fMode, fWho, fResp, fScenario, fCondition, fOut, rateVars,
                   cache, orchVars, sessVars, notWs>>

\* websocket_endpoint, lines 22-29: the ping on a websocket whose peer is
\* gone raises, the handler calls manager.disconnect(client_id) and ends.
PingFails(ws) ==
    /\ sockets[ws].st = "broken"
    /\ sockets' = [sockets EXCEPT ![ws] = Closed(sockets[ws].client_id)]
    /\ active_connections' = Disconnect(active_connections, sockets[ws].client_id)
    /\ UNCHANGED wsOut
    /\ UNCHANGED <<fMode, fWho, fResp, fScenario, fCondition, fOut, rateVars,
                   cache, orchVars, sessVars, notWs>>

\* manager.broadcast(message, exclude)
Broadcast(exclude) ==
    /\ active_connections # <<>>
    /\ LET out == BroadcastLoop(1, active_connections, Len(active_connections), exclude, <<>>)
       IN  /\ wsOut' = out @@ [before |-> active_connections, exclude |-> exclude,
                                failing |-> {ws \in Sockets : SendRaises(ws)}]
           /\ active_connections' = out.conns
    /\ UNCHANGED sockets
    /\ UNCHANGED <<fMode, fWho, fResp, fScenario, fCondition, fOut, rateVars,
                   cache, orchVars, sessVars, notWs>>

\* send_progress_update(client_id, ...) -> manager.send_personal_message
SendPersonalMessage(c) ==
    /\ wsOut' = [op |-> "personal", to |-> c, before |-> active_connections,
                 kind |-> IF ~HasKey(active_connections, c) THEN "skipped"
                          ELSE IF SendRaises(Lookup(active_connections, c)) THEN "raised"
                          ELSE "delivered"]
    /\ UNCHANGED <<sockets, active_connections>>
    /\ UNCHANGED <<fMode, fWho, fResp, fScenario, fCondition, fOut, rateVars,
                   cache, orchVars, sessVars, notWs>>

NoWsCall == [op |-> "none"]

\* No websocket was ever opened.
WsIdle ==
    /\ sockets = [ws \in Sockets |-> Unused]
    /\ active_connections = <<>>
    /\ wsOut = NoWsCall

LibIdle == RandIdle /\ ApiIdle /\ KeyIdle /\ WsIdle

----------------------------------------------------------------------------
(* Specifications *)

\* The agents AppState constructs; time.time() is far beyond the interval.
AgentsInit ==
    /\ clock = min_request_interval
    /\ last_request_time = 0
    /\ issued = <<>>
    /\ cache = [a \in CachingAgents |-> [k \in AgentKeys(a) |-> NoEntry]]

NoCallers == thr = [t \in Threads |-> Off]

OrchInit ==
    /\ pc = "idle"
    /\ drug_name = <<>>
    /\ therapeutic_area = <<>>
    /\ tasks = [a \in Sources |-> NotCreated]
    /\ analysis = PyNone
    /\ result = Pending
    /\ events = <<>>
    /\ dispatched = 0
    /\ session = [k \in CacheKeys |-> 0]
    /\ stored_at = [k \in CacheKeys |-> 0]
    /\ heap = <<>>
    /\ current_analysis = 0
    /\ recent_analyses = <<>>
    /\ calls = 0
    /\ now = 0

FetchIdle ==
    /\ fMode = "idle"
    /\ fWho = "none"
    /\ fResp = <<>>
    /\ fScenario = <<>>
    /\ fCondition = FALSE
    /\ fOut = Pending

\* The behaviours a task can meet during one run from a cold session.
RunScenarios(a) ==
    CASE a \in {"trade", "patent", "internal"} -> {"data", "thread_fail"}
      [] a = "web" -> {"data", "no_data", "timeout_forever", "malformed"}
      [] OTHER -> {"data", "no_data", "timeout_forever", "thread_fail"}

\* The behaviours considered over a session of several calls.
SessionScenarios(a) ==
    CASE a = "fda" -> {"data", "thread_fail"}
      [] a = "trials" -> {"data", "timeout_forever"}
      [] a = "web" -> {"data", "malformed"}
      [] OTHER -> {"data"}

\* The therapeutic areas typed over a session of several calls.
SessionAreas == {<<>>}

Init == OrchInit /\ FetchIdle /\ AgentsInit /\ NoCallers /\ LibIdle

\* A session: the user submits the form up to MaxCalls times.
Next ==
    \/ \E d \in Drugs, a \in SessionAreas : Submit(d, a)
    \/ Enter
    \/ Dispatch
    \/ \E a \in Sources : \E s \in SessionScenarios(a) : TaskComplete(a, s)
    \/ GatherAndAssemble
    \/ Finalize
    \/ Complete
    \/ Except
    \/ HandleResult
    \/ Propagate
    \/ Tick

Spec == Init /\ [][Next]_vars

\* One run of analyze_drug from a cold session, against every behaviour.
FirstSubmit(d, a) == calls = 0 /\ Submit(d, a)

RunNext ==
    \/ \E d \in Drugs, a \in Areas : FirstSubmit(d, a)
    \/ Enter
    \/ Dispatch
    \/ \E a \in Sources : \E s \in RunScenarios(a) : TaskComplete(a, s)
    \/ GatherAndAssemble
    \/ Finalize
    \/ Complete
    \/ Except
    \/ HandleResult
    \/ Propagate
    \/ Tick

RunSpec == Init /\ [][RunNext]_vars

\* One run of analyze_drug in which a thread may block for good, every step
\* that can be taken being taken eventually.
DeadlineNext ==
    \/ \E d \in Drugs, a \in SessionAreas : FirstSubmit(d, a)
    \/ Enter
    \/ Dispatch
    \/ \E a \in Sources : \E s \in SessionScenarios(a) : TaskComplete(a, s)
    \/ \E a \in Sources : TaskHangs(a)
    \/ GatherAndAssemble
    \/ Finalize
    \/ Complete
    \/ Except
    \/ HandleResult
    \/ Propagate
    \/ Tick

DeadlineSpec == Init /\ [][DeadlineNext]_vars /\ WF_vars(DeadlineNext)

\* One client request, or one agent fetch, on inputs drawn at the start.
FetchInit ==
    /\ OrchInit
    /\ AgentsInit
    /\ NoCallers
    /\ LibIdle
    /\ fOut = Pending
    /\ \/ /\ fMode = "client"
          /\ fWho \in Clients
          /\ fResp \in [1..RespLen -> Responses]
          /\ fScenario = <<>>
          /\ fCondition = FALSE
       \/ /\ fMode = "agent"
          /\ fWho \in Sources
          /\ fResp = <<>>
          /\ fScenario \in AgentScenarios(fWho) \X AgentScenarios(fWho)
          /\ fCondition \in BOOLEAN

DoClientRequest ==
    /\ fMode = "client"
    /\ fOut = Pending
    /\ fOut' = ClientRequest(fWho, fResp)
    /\ UNCHANGED <<fMode, fWho, fResp, fScenario, fCondition, agentVars, orchVars, sessVars>>

DoAgentFetch ==
    /\ fMode = "agent"
    /\ fOut = Pending
    /\ fOut' = AgentFetch(fWho, fScenario, fCondition)
    /\ UNCHANGED <<fMode, fWho, fResp, fScenario, fCondition, agentVars, orchVars, sessVars>>

FetchNext == DoClientRequest \/ DoAgentFetch

FetchSpec == FetchInit /\ [][FetchNext]_vars

\* One ClinicalTrialsAgent instance called by one thread (successive
\* requests) or by two threads at once.
RateInit ==
    /\ OrchInit
    /\ FetchIdle
    /\ AgentsInit
    /\ LibIdle
    /\ thr \in {[t \in Threads |-> IF t = 1 THEN Idle ELSE Off], [t \in Threads |-> Idle]}

RateNext ==
    \/ \E t \in Threads : StartRequest(t)
    \/ \E t \in Threads : RateLimit(t)
    \/ \E t \in Threads : WakeUp(t)
    \/ \E t \in Threads : \E r \in {"ok", "timeout", "http500"} : Request(t, r)
    \/ \E t \in Threads : BackoffDone(t)
    \/ RateTick

RateSpec == RateInit /\ [][RateNext]_vars

\* The three generated sources of one fan-out, each in its own thread, for
\* one drug name.
RandInit ==
    /\ OrchInit
    /\ FetchIdle
    /\ AgentsInit
    /\ NoCallers
    /\ gdrug \in {d \in Drugs : validate_drug_name(d)}
    /\ rng \in {Unseeded} \cup {Seeded(SeedOf(d)) : d \in Drugs}
    /\ gen = [a \in GenSources |-> GenStart]
    /\ ApiIdle
    /\ KeyIdle
    /\ WsIdle

RandNext ==
    \/ \E a \in GenSources : RandomSeed(a)
    \/ \E a \in GenSources : RandomDraw(a)

RandSpec == RandInit /\ [][RandNext]_vars

\* One UnifiedAPIClient, built in some environment and then called again and
\* again while providers come and go.
ApiInit ==
    /\ OrchInit
    /\ FetchIdle
    /\ AgentsInit
    /\ NoCallers
    /\ RandIdle
    /\ KeyIdle
    /\ WsIdle
    /\ providers \in SUBSET ProviderNames
    /\ current_provider = NoProvider
    /\ api_pc = "new"
    /\ chat = NoChat

ApiNext ==
    \/ Construct
    \/ \E up \in SUBSET ProviderNames : ChatCompletion(up)

ApiSpec == ApiInit /\ [][ApiNext]_vars

\* Two queries of one session and the keys computed for them.
KeyInit ==
    /\ OrchInit
    /\ FetchIdle
    /\ AgentsInit
    /\ NoCallers
    /\ RandIdle
    /\ ApiIdle
    /\ WsIdle
    /\ kQueries \in {<<Query(d1, a1), Query(d2, a2)>> :
                        d1 \in KeyDrugs, a1 \in KeyAreas, d2 \in KeyDrugs, a2 \in KeyAreas}
    /\ kKeys = <<>>

KeySpec == KeyInit /\ [][ComputeKeys]_vars

\* The websocket server: clients connect, vanish and reconnect while
\* messages are broadcast and progress updates are sent.
WsNext ==
    \/ \E ws \in Sockets, c \in WsClients : WsConnect(ws, c)
    \/ \E ws \in Sockets : PeerGone(ws)
    \/ \E ws \in Sockets : PingFails(ws)
    \/ \E exclude \in SUBSET WsClients : Broadcast(exclude)
    \/ \E c \in WsClients : SendPersonalMessage(c)

WsSpec == Init /\ [][WsNext]_vars

\* One WebIntelligenceAgent or one TradeAgent instance, called again and
\* again while time passes.
CacheInit ==
    /\ OrchInit
    /\ AgentsInit
    /\ NoCallers
    /\ LibIdle
    /\ fMode = "cache"
    /\ fWho \in CachingAgents
    /\ fResp = <<>>
    /\ fScenario = <<>>
    /\ fCondition = FALSE
    /\ fOut = Pending

CacheNext ==
    \/ \E q \in CacheQueries : \E s \in {"data", "no_data", "malformed"} :
           WebSearchEvidence(q, s)
    \/ \E d \in CacheQueries : \E g \in Draws : FetchPharmaMarketData(d, g)
    \/ \E t \in Instants : Advance(t)

CacheSpec == CacheInit /\ [][CacheNext]_vars

----------------------------------------------------------------------------
(* Vocabulary of the properties *)

\* Every task of the running call has finished.
FanInDone == \A a \in Sources : tasks[a].st = "done"

\* What the upstream of source a did during the running call.
SourceFailed(a) == tasks[a].st = "done" /\ ScenarioClass(tasks[a].scn) = "Error"
SourceSucceeded(a) == tasks[a].st = "done" /\ ScenarioClass(tasks[a].scn) = "Success"
TaskRaised(a) == tasks[a].st = "done" /\ tasks[a].out.kind = "raised"

\* Every progress event of the running call was taken by the sink.
SinkHealthy == \A k \in DOMAIN events : events[k].ok

\* The call is over: it returned or let an exception through.
CallOver == pc \in {"returned", "raised"}
ReturnedRecord == pc = "returned" /\ result.kind = "object"

\* The entry of source a in the returned record.
Entry(a) == heap[result.oid].analysis[EntryKey(a)]

\* The entry a task's own return value becomes.
OwnEntry(a) == ToRecords(tasks[a].out.value)

\* The caller-visible status in the specification's words: "success" is the
\* code's only healthy status, "error" its only failure status.
OverallStatus ==
    IF result.kind = "object"
    THEN (IF heap[result.oid].status = "success" THEN "Complete" ELSE "Failed")
    ELSE "Failed"

\* The status the specification's rule gives the per-source outcomes.
Classified ==
    IF \A a \in Sources : SourceFailed(a) THEN "Failed"
    ELSE IF \E a \in Sources : SourceFailed(a) THEN "Degraded"
    ELSE "Complete"

\* A source entry that says the fetch failed.
MarksError(v) == v.py = "dict" /\ "error" \in DOMAIN v

\* The record kept in recent_analyses at position j answers query (d, a).
SameQuery(j, d, a) ==
    /\ heap[recent_analyses[j]].analysis.drug_name = d
    /\ heap[recent_analyses[j]].analysis.therapeutic_area = (IF a # <<>> THEN a ELSE General)

AllTransient(resp) ==
    \A k \in DOMAIN resp : resp[k] \in {"timeout", "conn_error", "http500", "http429", "http429_ra"}

----------------------------------------------------------------------------
(* Properties *)

\* C1 (isolation): when exactly one source fails, every other source
\* succeeds and the sink is healthy, the call returns a record holding the
\* other sources' own results, with overall status Degraded.
C1_Isolation ==
    \A f \in Sources :
        (CallOver /\ FanInDone /\ SinkHealthy /\ SourceFailed(f)
            /\ \A a \in Sources \ {f} : SourceSucceeded(a))
        => /\ result.kind = "object"
           /\ \A a \in Sources \ {f} : Entry(a) = OwnEntry(a)
           /\ OverallStatus = "Degraded"

\* C2 (record completeness): every returned record has an entry for each of
\* the six sources, and when every source fails the call still returns such
\* a record, every entry marked as an error and the overall status Failed.
C2_RecordComplete ==
    /\ ReturnedRecord =>
           \A a \in Sources : EntryKey(a) \in DOMAIN heap[result.oid].analysis
    /\ (CallOver /\ FanInDone /\ SinkHealthy /\ \A a \in Sources : SourceFailed(a))
       => /\ result.kind = "object"
          /\ \A a \in Sources : MarksError(Entry(a))
          /\ OverallStatus = "Failed"

\* C3 (status classification): the status of a record returned after a fan-out is Failed
\* when every source failed, Degraded when some did, Complete otherwise.
C3_StatusClassification ==
    (ReturnedRecord /\ FanInDone) => OverallStatus = Classified

\* C4 (fan-in waits for all): `analysis` is assembled, stored and returned
\* only when every task created by the call has finished.
C4_FanInWaitsForAll ==
    (analysis # PyNone \/ pc \in {"finalize", "complete"} \/ (ReturnedRecord /\ dispatched > 0))
    => FanInDone

\* C4 witness: a record is returned after a fan-out in which a task raised
\* and another returned normally.
C4_Witness ==
    /\ ReturnedRecord /\ dispatched > 0 /\ analysis # PyNone
    /\ \E a, b \in Sources : TaskRaised(a) /\ SourceSucceeded(b)

\* C5 (defensive boundary): an exception escaping the task of any source
\* costs that source only; the record is still returned, with the other
\* sources' own results.
C5_DefensiveBoundary ==
    \A f \in Sources :
        (CallOver /\ FanInDone /\ SinkHealthy /\ TaskRaised(f))
        => /\ result.kind = "object"
           /\ ~IsException(Entry(f))
           /\ \A a \in Sources : ~TaskRaised(a) => Entry(a) = OwnEntry(a)

\* C6 (idempotence under cache): once a call has returned the record of a
\* query, a later call with that query creates no task, sends nothing and
\* returns that same record.
C6_IdempotentUnderCache ==
    \A j \in DOMAIN recent_analyses :
        (pc \notin {"idle", "entered"} /\ SameQuery(j, drug_name, therapeutic_area))
        => /\ pc = "returned"
           /\ dispatched = 0
           /\ events = <<>>
           /\ result = Object(recent_analyses[j])

\* C6 witness: the second call of a session is answered from the cache with
\* the record the first call returned.
C6_Witness ==
    /\ calls = 2 /\ pc = "returned" /\ dispatched = 0
    /\ \E j \in DOMAIN recent_analyses :
           SameQuery(j, drug_name, therapeutic_area) /\ result = Object(recent_analyses[j])

\* C7 (agents must not raise): whatever the upstream does, a source-agent
\* entry point returns a value.
C7_AgentsNeverRaise ==
    (fMode = "agent" /\ fOut # Pending) => fOut.kind = "returned"

\* C8 (exhaustion yields Error): when every attempt of the trials lookup
\* fails transiently, the result carries an error and differs from the
\* result of a lookup the upstream answered with no matching data.
C8_ExhaustionYieldsError ==
    (fMode = "agent" /\ fWho = "trials" /\ fOut # Pending
        /\ fScenario[1] \in TransientForever /\ fScenario[2] \in TransientForever)
    => /\ fOut.kind = "returned"
       /\ MarksError(fOut.value)
       /\ fOut # GetClinicalTrials(<<"no_data", "no_data">>, fCondition)

\* C9 (attempt count): a request never makes more than max_retries + 1
\* attempts, and against an upstream that fails transiently on every attempt
\* it makes exactly max_retries + 1 attempts and then gives up.
C9_AttemptCount ==
    (fMode = "client" /\ fOut # Pending)
    => /\ fOut.attempts <= MaxRetries + 1
       /\ AllTransient(fResp) =>
              (fOut.attempts = MaxRetries + 1 /\ fOut.kind = "returned" /\ fOut.value = PyNone)

\* C10 (client never raises): whatever the upstream answers, a client
\* request returns a payload or None.
C10_ClientNeverRaises ==
    (fMode = "client" /\ fOut # Pending) => fOut.kind = "returned"

\* The seconds (before jitter) a finished request slept between its k-th and
\* its next requests.get.
RECURSIVE SleptAfter(_, _)
SleptAfter(sleeps, k) ==
    IF sleeps = <<>> THEN 0
    ELSE (IF Head(sleeps).after = k THEN Head(sleeps).secs ELSE 0) + SleptAfter(Tail(sleeps), k)

ClientDone == fMode = "client" /\ fOut # Pending

\* The k-th requests.get of the finished request was made.
Attempted(k) == k \in DOMAIN fResp /\ k <= fOut.attempts

\* C11 (permanent errors are not retried): in ClinicalTrialsAgent, TradeAgent
\* and ClinicalTrialsFetcher a 4xx answer other than 429 ends the request at
\* once: that attempt is the last, the request returns its
\* failure value, and no sleep follows.
C11_PermanentNotRetried ==
    \A k \in 1..RespLen :
        (ClientDone /\ fWho \in {"ClinicalTrialsAgent", "TradeAgent", "ClinicalTrialsFetcher"}
            /\ Attempted(k) /\ fResp[k] = "http404")
        => /\ fOut.attempts = k
           /\ fOut = Returned(PyNone, k, fOut.sleeps)
           /\ SleptAfter(fOut.sleeps, k) = 0

\* C12 (Retry-After honored): in FDAAgent and ClinicalTrialsAgent, after a
\* 429 with Retry-After: n, when attempts remain, a next attempt is made and the client sleeps at least n seconds
\* before it; after a 429 without Retry-After it sleeps the exponential
\* backoff.
C12_RetryAfterHonored ==
    \A k \in 1..RespLen :
        (ClientDone /\ fWho \in {"FDAAgent", "ClinicalTrialsAgent"}
            /\ Attempted(k) /\ k < MaxRetries /\ StatusCode(fResp[k]) = 429)
        => /\ fOut.attempts > k
           /\ fResp[k] = "http429_ra" => SleptAfter(fOut.sleeps, k) >= RetryAfterSecs
           /\ fResp[k] = "http429" => SleptAfter(fOut.sleeps, k) = 2 ^ (k - 1)

\* C13 (backoff schedule): in FDAAgent, ClinicalTrialsAgent and
\* ClinicalTrialsFetcher the wait before jitter between a transiently
\* failed attempt k (counted from 0) that carried no Retry-After and the
\* retry that follows it is exactly 2^k seconds.
C13_BackoffSchedule ==
    \A k \in 1..RespLen :
        (ClientDone /\ fWho \in {"FDAAgent", "ClinicalTrialsAgent", "ClinicalTrialsFetcher"}
            /\ Attempted(k) /\ fOut.attempts > k
            /\ fResp[k] \in {"timeout", "conn_error", "http500", "http429"})
        => SleptAfter(fOut.sleeps, k) = 2 ^ (k - 1)

\* Only one thread calls the instance.
SingleCaller == \A t \in Threads \ {1} : thr[t].pc = "off"

\* Any two consecutive calls of the instance are at least the interval apart.
CallsSpaced ==
    \A i \in 1..(Len(issued) - 1) : issued[i + 1].at - issued[i].at >= min_request_interval

\* C14 (rate limiting, sequential): when one thread calls a
\* ClinicalTrialsAgent instance, any two consecutive upstream calls of the
\* instance, retries and successive requests alike, are stamped at least
\* min_request_interval apart.
C14_RateLimitSequential == SingleCaller => CallsSpaced

\* C14 witness: the single caller has made two calls and is blocked by
\* _rate_limit before a third, having arrived too soon.
C14_Witness ==
    /\ SingleCaller /\ Len(issued) >= 2 /\ thr[1].pc = "sleeping"
    /\ thr[1].wake = issued[Len(issued)].at + min_request_interval

\* C15 (rate limiting under concurrent use): when two threads call the same
\* ClinicalTrialsAgent instance, in every interleaving any two consecutive
\* upstream calls of the instance are at least min_request_interval apart.
C15_RateLimitConcurrent == CallsSpaced

\* A call of a caching entry point has finished.
CacheCallDone == fMode = "cache" /\ fOut # Pending

\* The age, at the call's cache read, of the entry the read looked up.
AgeAtRead == fOut.at - fOut.before.timestamp

\* C16 (per-source cache hit short-circuits I/O): when the cache of the
\* agent holds an unexpired entry for the key, search_evidence and
\* _fetch_pharma_market_data make no upstream request, generate no data and
\* return exactly the cached payload.
C16_CacheHitShortCircuits ==
    (CacheCallDone /\ fOut.before.present /\ AgeAtRead < cache_ttl(fWho))
    => /\ fOut.kind = "returned"
       /\ fOut.value = fOut.before.data
       /\ fOut.requests = 0
       /\ ~fOut.generated
       /\ cache[fWho][fOut.key] = fOut.before

\* C16 witness: a call is answered from an entry stored earlier, while the
\* upstream would by now answer otherwise.
C16_Witness ==
    /\ CacheCallDone /\ fOut.before.present
    /\ 0 < AgeAtRead /\ AgeAtRead < cache_ttl(fWho)
    /\ fOut.value = fOut.before.data /\ fOut.requests = 0 /\ ~fOut.generated

\* C17 (lazy TTL expiry), as claimed: a cache read treats an entry as absent
\* exactly when now - stored_at > ttl, and returns the stored value
\* otherwise, also when now - stored_at equals ttl.
C17_ExpiryAsClaimed ==
    (CacheCallDone /\ fOut.before.present)
    => fOut.read = (IF AgeAtRead > cache_ttl(fWho) THEN PyNone ELSE fOut.before.data)

\* C17 (lazy TTL expiry), amended: a cache read treats an entry as absent
\* exactly when now - stored_at >= ttl and returns the stored value
\* otherwise; an entry changes only when a call whose read found nothing
\* stores its result under the key it read, and no entry is ever removed.
C17_LazyExpiry ==
    [][/\ (fMode' = "cache" /\ fOut' # fOut /\ fOut'.before.present)
          => fOut'.read = (IF fOut'.at - fOut'.before.timestamp >= cache_ttl(fWho')
                           THEN PyNone ELSE fOut'.before.data)
       /\ \A a \in CachingAgents : \A k \in AgentKeys(a) :
              cache'[a][k] # cache[a][k]
              => /\ fOut' # fOut /\ fWho' = a /\ fOut'.key = k
                 /\ fOut'.read = PyNone
                 /\ cache'[a][k] = CacheEntry(fOut'.value, clock)]_vars

\* C17 witness: a read made exactly ttl after the entry was stored finds
\* nothing, and the call stores a new entry.
C17_Witness ==
    /\ CacheCallDone /\ fOut.before.present
    /\ AgeAtRead = cache_ttl(fWho)
    /\ fOut.read = PyNone
    /\ cache[fWho][fOut.key].timestamp = fOut.at

\* analyze_drug has answered the call from st.session_state in this step.
RecordCacheHit == pc = "entered" /\ pc' = "returned" /\ result'.kind = "object"

\* The age of the record stored under the key of the call in progress.
RecordAge == now - stored_at[Key]

\* The record TTL: any span that can elapse within the session; the longest
\* one asks the least of the program.
RecordTtl == MaxTime - 1

\* C18 (record-level TTL): once the record TTL has elapsed since a record
\* was stored, analyze_drug treats the entry as absent: no call is answered
\* from st.session_state with a record older than the record TTL.
C18_RecordTtl == [][RecordCacheHit => RecordAge <= RecordTtl]_vars

\* A string without its leading and trailing white space.
Trimmed(s) ==
    LET solid == {i \in DOMAIN s : ~IsSpace(s[i])}
    IN IF solid = {} THEN <<>>
       ELSE SubSeq(s, CHOOSE i \in solid : \A k \in solid : i <= k,
                      CHOOSE i \in solid : \A k \in solid : k <= i)

\* A query component as the claim normalizes it: case-folded and trimmed.
Normalized(s) == Trimmed(Lower(s))

\* The j-th record of the session answers a query that differs from (d, a)
\* at most in letter case and in leading or trailing white space.
SameNormalizedQuery(j, d, a) ==
    /\ Normalized(heap[recent_analyses[j]].analysis.drug_name) = Normalized(d)
    /\ Normalized(heap[recent_analyses[j]].analysis.therapeutic_area)
           = Normalized(IF a # <<>> THEN a ELSE General)

\* C19 (cache key normalization): a call whose drug name and therapeutic
\* area differ from those of an earlier successful call of the session only
\* in letter case or in leading/trailing white space is served as a cache
\* hit of that call: no task is dispatched and the earlier record is
\* returned.
C19_KeyNormalization ==
    \A j \in DOMAIN recent_analyses :
        (pc \notin {"idle", "entered"} /\ SameNormalizedQuery(j, drug_name, therapeutic_area))
        => /\ pc = "returned"
           /\ dispatched = 0
           /\ result = Object(recent_analyses[j])

\* The records held in st.session_state under a cache key.
StoredRecords == {session[k] : k \in {c \in CacheKeys : session[c] # 0}}

\* C20 (record immutability): a record is never mutated after it has been
\* stored; at every later point the value held in st.session_state under
\* its key equals the value that was stored.
C20_RecordImmutable == [][\A oid \in StoredRecords : heap'[oid] = heap[oid]]_vars

\* C21 (overall deadline and termination): analyze_drug always returns;
\* when a source task never completes, the call still comes to an end.
C21_AlwaysReturns == (pc = "entered") ~> CallOver

\* The running call missed the cache and no step of it has failed so far.
MissUnderWay ==
    \/ pc \in {"dispatch", "gather", "finalize", "complete"}
    \/ (ReturnedRecord /\ dispatched > 0)

\* The percentages of the progress events delivered so far, in order.
Percentages == [k \in DOMAIN events |-> events[k].progress]

\* The record of the running call is in st.session_state.
RecordStored == session[Key] # 0

\* C22 (progress event ordering): on a cache miss that completes normally,
\* the first event (Started) is sent before any task is created, the third
\* (the first after the fan-in) only once every task has finished, the
\* fourth (Finalizing) before the record is stored, the fifth (Done) after
\* it and before the return; the percentages never decrease, stay within
\* 0..100 and end at 100.
C22_ProgressOrdering ==
    MissUnderWay =>
        /\ Len(events) >= 1
        /\ dispatched > 0 => Len(events) >= 2
        /\ Len(events) = 1 => dispatched = 0
        /\ Len(events) >= 3 => FanInDone
        /\ RecordStored <=> Len(events) >= 4
        /\ Len(events) = 5 <=> ReturnedRecord
        /\ ReturnedRecord => Percentages[Len(events)] = 100
        /\ \A k \in DOMAIN events : Percentages[k] \in 0..100
        /\ \A j, k \in DOMAIN events : j <= k => Percentages[j] <= Percentages[k]
        /\ Len(events) <= 5

\* C22 witness: a cache miss has run to its end with every source answering.
C22_Witness ==
    /\ ReturnedRecord /\ dispatched > 0 /\ FanInDone
    /\ Percentages = <<20, 40, 60, 80, 100>>

\* The call ended because a send of a progress event failed.
EndedBySendFailure ==
    \/ pc = "raised" /\ result.value.name = "SendError"
    \/ pc = "returned" /\ result.kind = "value" /\ result.value.message = "SendError"

\* C23 (progress delivery is best-effort): a failure while delivering a
\* progress event never makes analyze_drug raise and never turns the record
\* it would return into an error.
C23_ProgressBestEffort == CallOver => ~EndedBySendFailure

\* A call of ClinicalTrialsAgent.get_clinical_trials has finished.
TrialsFetchDone == fMode = "agent" /\ fWho = "trials" /\ fOut # Pending

\* The keys every result of get_clinical_trials has, and the fields every
\* element of recent_trials has.
TrialsKeys == {"status", "phase_ii_trials", "phase_iii_trials", "recent_trials",
               "key_insights", "source", "search_url"}
TrialFields == {"title", "nct_id", "status", "phase", "url", "conditions", "interventions"}

\* Dict d has the schema of a get_clinical_trials result.
TrialsSchema(d) ==
    /\ d.py = "dict"
    /\ TrialsKeys \subseteq DOMAIN d
    /\ d.status = "No trials found" => {"message", "suggestion"} \subseteq DOMAIN d
    /\ \A k \in DOMAIN d.recent_trials.items :
           TrialFields \subseteq DOMAIN d.recent_trials.items[k]

\* C24 (schema stability of the trials source): get_clinical_trials returns
\* in every outcome a dict with the keys status, phase_ii_trials,
\* phase_iii_trials, recent_trials, key_insights, source and search_url, with
\* message and suggestion when nothing is found, and every element of
\* recent_trials has title, nct_id, status, phase, url, conditions and
\* interventions; the dict of the except branch has the same keys.
C24_TrialsSchema ==
    /\ TrialsFetchDone => (fOut.kind = "returned" /\ TrialsSchema(fOut.value))
    /\ TrialsSchema(TrialsError)

\* C24 witness: studies were found and processed.
C24_Witness ==
    /\ TrialsFetchDone
    /\ fOut.value.recent_trials.items # <<>>
    /\ TrialsSchema(fOut.value)

\* What a generated source draws for drug name d when it runs alone.
DrawnAlone(d) == [k \in 1..GenDraws |-> [seed |-> SeedOf(d), n |-> k - 1]]

\* C25 (deterministic simulated sources): in every interleaving of the three
\* threads, the values get_patent_analysis and get_internal_insights draw
\* are those the drug name alone determines.
C25_DeterministicGenerated ==
    \A a \in {"patent", "internal"} :
        (gdrug # <<>> /\ GenFinished(a)) => gen[a].drawn = DrawnAlone(gdrug)

\* The priority of a provider: DeepSeek, then Groq, then OpenAI.
Rank(name) == CASE name = "deepseek" -> 1 [] name = "groq" -> 2 [] name = "openai" -> 3

\* Provider p is asked before provider q by a call whose current provider
\* was c: the current one first, the others by priority.
AskedBefore(p, q, c) == p # q /\ (p = c \/ (q # c /\ Rank(p) < Rank(q)))

\* The configured providers a call has to ask before it may ask p.
AskedFirst(p) == {q \in providers : AskedBefore(q, p, chat.before)}

ChatDone == api_pc = "ready" /\ chat.kind # "none"
TriedSet == {chat.tried[k] : k \in DOMAIN chat.tried}

\* C26 (provider fallback): the provider selected at construction is the
\* configured one of highest priority; chat_completion asks the current
\* provider first and then the other configured ones in priority order,
\* returns the first answer and makes its provider the current one; it
\* raises only when every configured provider failed, leaving
\* current_provider unchanged; current_provider is always a key of providers.
C26_ProviderFallback ==
    /\ api_pc = "failed" <=> (api_pc \notin {"new", "off"} /\ providers = {})
    /\ api_pc = "ready" => current_provider \in providers
    /\ (api_pc = "ready" /\ chat.kind = "none")
          => \A q \in providers : Rank(current_provider) <= Rank(q)
    /\ ChatDone =>
          /\ TriedSet \subseteq providers
          /\ \A j, k \in DOMAIN chat.tried :
                 j < k => AskedBefore(chat.tried[j], chat.tried[k], chat.before)
          /\ chat.kind = "returned" <=> providers \cap chat.up # {}
          /\ chat.kind = "returned" =>
                 /\ chat.by \in chat.up
                 /\ chat.tried[Len(chat.tried)] = chat.by
                 /\ TriedSet = AskedFirst(chat.by) \cup {chat.by}
                 /\ AskedFirst(chat.by) \cap chat.up = {}
                 /\ current_provider = chat.by
          /\ chat.kind = "raised" =>
                 /\ TriedSet = providers
                 /\ current_provider = chat.before

\* C26 witness: the current provider and the next one in priority fail, the
\* last configured provider answers and becomes the current one.
C26_Witness ==
    /\ ChatDone /\ chat.kind = "returned"
    /\ Len(chat.tried) = 3
    /\ current_provider = chat.by /\ chat.by # chat.before

\* analyze_drug has returned {'status': 'error', ...}.
ReturnedError == pc = "returned" /\ result.kind = "value" /\ result.value.status = "error"

\* C27 (error implies nothing cached): whenever analyze_drug returns a
\* result with status 'error', st.session_state holds no record under the
\* key of that call.
C27_ErrorNothingCached == ReturnedError => ~RecordStored

\* The normalized (drug_name, therapeutic_area) pair of a query.
NormalizedPair(q) == <<Normalized(q.drug_name), Normalized(q.therapeutic_area)>>

\* C28 (cache keys do not collide): two queries whose normalized
\* (drug_name, therapeutic_area) pairs differ are given different record
\* cache keys and different keys in the cache of the web agent.
C28_KeysDoNotCollide ==
    (kKeys # <<>> /\ NormalizedPair(kQueries[1]) # NormalizedPair(kQueries[2]))
    => /\ kKeys[1].record # kKeys[2].record
       /\ kKeys[1].web # kKeys[2].web

\* The clients a broadcast has to reach: those registered when it began
\* and not excluded; and among them those whose websocket takes the message.
BroadcastDone == wsOut.op = "broadcast"
Addressed == {wsOut.before[i].client_id : i \in {k \in DOMAIN wsOut.before :
                                                   wsOut.before[k].client_id \notin wsOut.exclude}}
Reachable == {wsOut.before[i].client_id : i \in {k \in DOMAIN wsOut.before :
                 /\ wsOut.before[k].client_id \notin wsOut.exclude
                 /\ wsOut.before[k].ws \notin wsOut.failing}}

\* C29 (broadcast tolerates a failing client): broadcast returns without
\* raising, has delivered to every registered, not excluded client whose
\* send did not fail, and has removed exactly the clients whose send failed
\* from active_connections.
C29_BroadcastTolerant ==
    BroadcastDone =>
        /\ wsOut.kind = "returned"
        /\ {wsOut.delivered[k] : k \in DOMAIN wsOut.delivered} = Reachable
        /\ wsOut.conns = SelectSeq(wsOut.before,
                                   LAMBDA r : r.client_id \notin (Addressed \ Reachable))

\* The websockets opened for client_id c, and the one opened last.
SocketsOf(c) == {ws \in Sockets : sockets[ws] # Unused /\ sockets[ws].client_id = c}
LatestSocket(c) == CHOOSE ws \in SocketsOf(c) : \A r \in SocketsOf(c) : r <= ws

\* C30 (reconnect keeps the live registration): for every client_id, while
\* the websocket connected last under it is open and its handler runs,
\* active_connections holds that websocket, also after the handler of an
\* earlier websocket of the same client_id has ended.
C30_ReconnectKeepsRegistration ==
    \A c \in WsClients :
        (SocketsOf(c) # {} /\ sockets[LatestSocket(c)].st = "open")
        => /\ HasKey(active_connections, c)
           /\ Lookup(active_connections, c) = LatestSocket(c)

====
